---- MODULE Spec2Model ----
(***************************************************************************)
(* WMACS Guardian: deadlock detection and recovery coordinator             *)
(* (src/wmacs-guardian.js, class WMACSGuardian).                           *)
(*                                                                         *)
(* Guarded invocations (executeWithGuardian) are asynchronous: each one is *)
(* a slot of Inv whose pc names the await it is suspended at.  One action  *)
(* of the model is one synchronous segment of the JavaScript between two   *)
(* awaits.  Times are milliseconds, as returned by Date.now().             *)
(***************************************************************************)
EXTENDS Integers, Naturals, Sequences, FiniteSets, TLC

-----------------------------------------------------------------------------
(* Bounds of the model                                                     *)

MaxAttempts == 4        \* cap on the attempt counter of a key
TickMs == 30000         \* granularity of the clock
StartTime == 200000     \* Date.now() when the guardian is constructed
Horizon == 150000       \* the clock stops at StartTime + Horizon

\* the slots of guarded invocations: the caller awaits one before the next
Inv == {1}
MaxTime == StartTime + Horizon

-----------------------------------------------------------------------------
(* Program constants                                                       *)

deadlockAttempts == 3            \* attempt.count >= 3
deadlockWindowMs == 60000       \* timeSinceFirst > 60000
forceRecoveryAfter == 120000    \* config.forceRecoveryAfter
timeoutMs == 30000              \* config.timeoutMs
maxWait == 120000               \* waitForContainerReady

Operations == {"app-start"}
Targets == {"134"}

\* const key = `${operation}-${target}`
Key(operation, target) == operation \o "-" \o target

Keys == {Key(o, t) : o \in Operations, t \in Targets}

\* config.ports, and the commands recoverPortConflict issues, in order
PortCommands ==
  << "fuser -k 3001/tcp", "pkill -f 'port 3001'",
     "fuser -k 8000/tcp", "pkill -f 'port 8000'",
     "pkill -f 'next-server'", "pkill -f 'npm start'" >>

-----------------------------------------------------------------------------
(* Errors.  An error is its message; a message is modelled by the set of   *)
(* the phrases it contains, so that String.includes is membership.         *)

NoError == {"<none>"}

ErrListen == {"listen", "EADDRINUSE", "address already in use"}
ErrBind == {"bind", "address already in use"}
ErrRefused == {"ssh: connect to host", "Connection refused"}
ErrNoFile == {"bash", "No such file"}
ErrBoth == {"EADDRINUSE", "Connection refused"}

\* the errors a guarded action can throw
ActionErrors == {ErrListen, ErrBind, ErrRefused, ErrNoFile, ErrBoth}

\* new Error(`Operation timed out after ${ms}ms`)
ErrTimeout == {"Operation timed out"}

\* errors raised inside the recovery strategies
ErrCommand == {"Command failed"}
ErrNotReady == {"did not become ready"}

Includes(message, phrase) == phrase \in message

\* faulty variant: the connection signature is tested before the port signature
ErrorSignatureConnectionFirst(message) ==
  IF Includes(message, "Connection refused") THEN "connection"
  ELSE IF Includes(message, "EADDRINUSE") THEN "port"
  ELSE IF Includes(message, "No such file") THEN "files"
  ELSE "none"

\* the if / else-if chain on error.message of executeWithGuardian's catch
ErrorSignature(message) ==
  IF Includes(message, "EADDRINUSE") THEN "port"
  ELSE IF Includes(message, "Connection refused") THEN "connection"
  ELSE IF Includes(message, "No such file") THEN "files"
  ELSE "none"

-----------------------------------------------------------------------------
(* State                                                                   *)

VARIABLES
  now,          \* Date.now()
  attempts,     \* this.attempts: key -> {count, firstAttempt}
  lastSuccess,  \* this.lastSuccess: key -> time
  inv,          \* the guarded invocations in flight, one record per slot
  lastFailure,  \* observer: key -> time its guarded action last failed
  orphans,      \* keys with a timed-out action that is still running
  run,          \* deployment runs (deployToEnvironment), one record per run
  remoteHead,   \* HEAD commit of the working copy on the container
  trackingRef,  \* origin/<branch> as last fetched on the container
  originHead,   \* head of the branch on origin
  localHead,    \* HEAD commit of the local repository
  endpoints,    \* the endpoint list of postDeploymentValidation
  synced,       \* target of the last synchronization that returned, if the
                \* working copy has not been moved since
  command,      \* one call of executeCommand: the child process and the promise
  cli,          \* one run of a guardian command line
  resourceLocks,   \* coordinator: this.resourceLocks, the keys that are locked
  operationQueue,  \* coordinator: this.operationQueue
  opState          \* coordinator: where each operation is

guardianVars == << now, attempts, lastSuccess, inv, lastFailure, orphans >>
deployVars ==
  << run, remoteHead, trackingRef, originHead, localHead, endpoints, synced >>
toolVars == << command, cli, resourceLocks, operationQueue, opState >>
vars == << guardianVars, deployVars, toolVars >>

\* what a Map gives for a key it does not hold, and a time not yet set
Absent == -1

\* a key this.attempts does not hold
NoAttempt == [count |-> 0, firstAttempt |-> Absent]
\* a key this.lastSuccess does not hold
NoSuccess == Absent
\* a key whose guarded action has not failed yet
NoFailure == Absent

NoStatus ==
  [isDeadlock |-> FALSE, needsForceRecovery |-> FALSE,
   attemptCount |-> 0, timeSinceFirst |-> 0]

NoReach == [ping |-> TRUE, ssh |-> TRUE]

IdleInv ==
  [pc |-> "idle", operation |-> "", target |-> "", status |-> NoStatus,
   actionStart |-> Absent, waitStart |-> Absent, step |-> 0,
   raised |-> NoError, thrown |-> NoError, result |-> "none",
   calls |-> << >>, cmds |-> << >>, reach |-> NoReach,
   forceResult |-> "none", forceAt |-> "none"]

KeyOf(i) == Key(inv[i].operation, inv[i].target)

-----------------------------------------------------------------------------
(* detectDeadlock                                                          *)

\* lines 45-50: create the record when absent, then attempt.count++
AttemptRecord(att, key, t) ==
  LET rec == IF att[key] = NoAttempt
             THEN [count |-> 0, firstAttempt |-> t]
             ELSE att[key]
  IN [rec EXCEPT !.count = @ + 1]

\* this.lastSuccess.get(key) || 0
LastSuccessTime(ls, key) == IF ls[key] = NoSuccess \/ ls[key] = 0 THEN 0 ELSE ls[key]

\* faulty variant: the elapsed time is left out of the deadlock condition
DeadlockStatusCountOnly(rec, ls, key, t) ==
  [isDeadlock |-> rec.count >= deadlockAttempts,
   needsForceRecovery |-> t - LastSuccessTime(ls, key) > forceRecoveryAfter,
   attemptCount |-> rec.count,
   timeSinceFirst |-> t - rec.firstAttempt]

\* faulty variant: the deadlock window is compared with >= instead of >
DeadlockStatusInclusive(rec, ls, key, t) ==
  [isDeadlock |-> rec.count >= deadlockAttempts /\ t - rec.firstAttempt >= deadlockWindowMs,
   needsForceRecovery |-> t - LastSuccessTime(ls, key) > forceRecoveryAfter,
   attemptCount |-> rec.count,
   timeSinceFirst |-> t - rec.firstAttempt]

\* lines 57-66: the status detectDeadlock returns
DeadlockStatus(rec, ls, key, t) ==
  LET timeSinceFirst == t - rec.firstAttempt
      timeSinceLastSuccess == t - LastSuccessTime(ls, key)
  IN [isDeadlock |-> rec.count >= deadlockAttempts /\ timeSinceFirst > deadlockWindowMs,
      needsForceRecovery |-> timeSinceLastSuccess > forceRecoveryAfter,
      attemptCount |-> rec.count,
      timeSinceFirst |-> timeSinceFirst]

-----------------------------------------------------------------------------
(* executeWithGuardian                                                     *)

Append1(r, field, x) == [r EXCEPT ![field] = Append(@, x)]

\* line 93: const deadlockStatus = await this.detectDeadlock(operation, target)
Call(i, operation, target) ==
  LET key == Key(operation, target)
      rec == AttemptRecord(attempts, key, now)
  IN /\ inv[i].pc = "idle"
     /\ attempts[key].count < MaxAttempts
     /\ attempts' = [attempts EXCEPT ![key] = rec]
     /\ inv' = [inv EXCEPT ![i] =
                  [IdleInv EXCEPT !.pc = "checked",
                                  !.operation = operation,
                                  !.target = target,
                                  !.status = DeadlockStatus(rec, lastSuccess, key, now)]]
     /\ UNCHANGED << now, lastSuccess, lastFailure, orphans, deployVars, toolVars >>

\* faulty variant: the force-recovery threshold alone triggers the force recovery
NeedsForceThresholdOnly(status) == status.needsForceRecovery

\* faulty variant: every deadlock triggers the force recovery
NeedsForceOnDeadlock(status) == status.isDeadlock

\* lines 95-104: the branch that decides on a force recovery before the action
NeedsForceBeforeAction(status) == status.isDeadlock /\ status.needsForceRecovery

\* lines 106-110: actionFn() is started and raced against the timeout
StartAction(r, t) == [r EXCEPT !.pc = "run", !.actionStart = t]

\* line 102: await this.forceRecovery(target)
EnterForceRecovery(r, from) ==
  [Append1(r, "calls", "forceRecovery") EXCEPT !.pc = "fr_restart", !.forceAt = from]

Precheck(i) ==
  /\ inv[i].pc = "checked"
  /\ inv' = [inv EXCEPT ![i] =
               IF NeedsForceBeforeAction(inv[i].status)
               THEN EnterForceRecovery(inv[i], "precheck")
               ELSE StartAction(inv[i], now)]
  /\ UNCHANGED << now, attempts, lastSuccess, lastFailure, orphans, deployVars, toolVars >>

\* line 129: throw error
Rethrow(r, error) == [r EXCEPT !.pc = "done", !.thrown = error, !.result = "threw"]

-----------------------------------------------------------------------------
(* forceRecovery and waitForContainerReady                                 *)

\* faulty variant: forceRecovery lets its error escape
ForceRecoveryRethrows(error) == error

\* lines 150-152: the catch of forceRecovery logs the error and returns
ForceRecoveryCatch(error) == NoError

\* where the caller of forceRecovery goes on: an error that leaves forceRecovery
\* leaves executeWithGuardian too; otherwise line 106 (no error caught yet) or
\* line 129 (called from the catch block, through recoverConnectionIssue)
AfterForce(r, propagated, t) ==
  IF propagated # NoError THEN Rethrow(r, propagated)
  ELSE IF r.raised = NoError THEN StartAction(r, t)
  ELSE Rethrow(r, r.raised)

\* line 144: pct stop && sleep 5 && pct start
ForceRestart(i, ok) ==
  /\ inv[i].pc = "fr_restart"
  /\ LET r == Append1(inv[i], "cmds", "pct stop && sleep 5 && pct start")
     IN inv' = [inv EXCEPT ![i] =
                  IF ok
                  THEN [r EXCEPT !.pc = "fr_wait", !.waitStart = now]
                  ELSE AfterForce([r EXCEPT !.forceResult = "failed"],
                                  ForceRecoveryCatch(ErrCommand), now)]
  /\ UNCHANGED << now, attempts, lastSuccess, lastFailure, orphans, deployVars, toolVars >>

\* lines 219-223: a poll inside the maximum wait is answered
WaitReady(i) ==
  /\ inv[i].pc = "fr_wait"
  /\ now - inv[i].waitStart < maxWait
  /\ LET r == Append1(inv[i], "cmds", "ssh echo ready")
     IN inv' = [inv EXCEPT ![i] =
                  AfterForce([r EXCEPT !.forceResult = "ok"], NoError, now)]
  /\ UNCHANGED << now, attempts, lastSuccess, lastFailure, orphans, deployVars, toolVars >>

\* lines 219, 229: the loop ends unanswered and waitForContainerReady throws
WaitGiveUp(i) ==
  /\ inv[i].pc = "fr_wait"
  /\ now - inv[i].waitStart >= maxWait
  /\ inv' = [inv EXCEPT ![i] =
               AfterForce([inv[i] EXCEPT !.forceResult = "failed"],
                          ForceRecoveryCatch(ErrNotReady), now)]
  /\ UNCHANGED << now, attempts, lastSuccess, lastFailure, orphans, deployVars, toolVars >>

-----------------------------------------------------------------------------
(* Outcome of the guarded action                                           *)

\* faulty variant: a success leaves the attempt record in place
ResetAttemptsKept(att, key) == att

\* line 113: this.attempts.delete(key)
ResetAttempts(att, key) == [att EXCEPT ![key] = NoAttempt]

\* line 114: this.lastSuccess.set(key, Date.now())
StampSuccess(ls, key, t) == [ls EXCEPT ![key] = t]

\* lines 107-116: the action settles first and fulfils
ActionReturn(i) ==
  /\ inv[i].pc = "run"
  /\ attempts' = ResetAttempts(attempts, KeyOf(i))
  /\ lastSuccess' = StampSuccess(lastSuccess, KeyOf(i), now)
  /\ inv' = [inv EXCEPT ![i] = [@ EXCEPT !.pc = "done", !.result = "returned"]]
  /\ UNCHANGED << now, lastFailure, orphans, deployVars, toolVars >>

\* lines 117-129: the catch block dispatches on the signature of the error
Catch(r, error) ==
  LET sig == ErrorSignature(error)
      c == [r EXCEPT !.raised = error]
  IN IF sig = "port"
     THEN [Append1(c, "calls", "recoverPortConflict") EXCEPT !.pc = "rec_port"]
     ELSE IF sig = "connection"
     THEN [Append1(c, "calls", "recoverConnectionIssue") EXCEPT !.pc = "conn_ping"]
     ELSE IF sig = "files"
     THEN [Append1(c, "calls", "recoverMissingFiles") EXCEPT !.pc = "rec_files"]
     ELSE Rethrow(c, error)

\* the action rejects before the timer fires
ActionThrow(i, error) ==
  /\ inv[i].pc = "run"
  /\ inv' = [inv EXCEPT ![i] = Catch(inv[i], error)]
  /\ lastFailure' = [lastFailure EXCEPT ![KeyOf(i)] = now]
  /\ UNCHANGED << now, attempts, lastSuccess, orphans, deployVars, toolVars >>

\* lines 133-137: the timer of this.timeout(timeoutMs) fires first
ActionTimeout(i) ==
  /\ inv[i].pc = "run"
  /\ now - inv[i].actionStart >= timeoutMs
  /\ inv' = [inv EXCEPT ![i] = Catch(inv[i], ErrTimeout)]
  /\ lastFailure' = [lastFailure EXCEPT ![KeyOf(i)] = now]
  /\ orphans' = orphans \cup {KeyOf(i)}
  /\ UNCHANGED << now, attempts, lastSuccess, deployVars, toolVars >>

\* faulty variant: the late completion of a timed-out action runs lines 113-114
LateSettlementResets(att, ls, key, t) ==
  [attempts |-> ResetAttempts(att, key), lastSuccess |-> StampSuccess(ls, key, t)]

\* lines 107-110: Promise.race has settled with the timeout; when the action
\* settles later nothing is awaiting it, and lines 113-114 do not run
LateSettlement(att, ls, key, t) == [attempts |-> att, lastSuccess |-> ls]

\* the action of a timed-out invocation settles at last
OrphanSettles(key) ==
  /\ key \in orphans
  /\ orphans' = orphans \ {key}
  /\ attempts' = LateSettlement(attempts, lastSuccess, key, now).attempts
  /\ lastSuccess' = LateSettlement(attempts, lastSuccess, key, now).lastSuccess
  /\ UNCHANGED << now, inv, lastFailure, deployVars, toolVars >>

-----------------------------------------------------------------------------
(* Recovery strategies                                                     *)

\* lines 173-175: the catch of recoverPortConflict logs the error and returns
PortRecoveryCatch(error) == NoError

\* lines 162-169: recoverPortConflict issues its commands in order; the remote
\* part of each ends in || true, so a command fails only when ssh itself does,
\* and the first failure ends the strategy.  done is the number of commands
\* that succeeded.
PortRecovery(i, done) ==
  /\ inv[i].pc = "rec_port"
  /\ LET issued == IF done < Len(PortCommands) THEN done + 1 ELSE done
         failure == IF done < Len(PortCommands)
                    THEN PortRecoveryCatch(ErrCommand) ELSE NoError
         r == [inv[i] EXCEPT !.cmds = @ \o SubSeq(PortCommands, 1, issued),
                             !.step = issued]
     IN inv' = [inv EXCEPT ![i] =
                  IF failure # NoError THEN Rethrow(r, failure)
                  ELSE Rethrow(r, r.raised)]
  /\ UNCHANGED << now, attempts, lastSuccess, lastFailure, orphans, deployVars, toolVars >>

\* faulty variant: a failed check is logged and the strategy returns without escalating
AfterConnectionCheckNoEscalation(r, ok, next) ==
  IF ok /\ next # "done" THEN [r EXCEPT !.pc = next]
  ELSE [r EXCEPT !.pc = "done", !.thrown = r.raised, !.result = "threw"]

\* lines 181-196: where recoverConnectionIssue goes after a check; a failed check
\* lands in the catch block, which escalates to forceRecovery
AfterConnectionCheck(r, ok, next) ==
  IF ok
  THEN IF next = "done" THEN Rethrow(r, r.raised) ELSE [r EXCEPT !.pc = next]
  ELSE EnterForceRecovery(r, "escalation")

\* line 185: ping -c 1 -W 5; the reachability of the host is an input
ConnPing(i, ping, ssh) ==
  /\ inv[i].pc = "conn_ping"
  /\ LET r == [Append1(inv[i], "cmds", "ping") EXCEPT
                 !.reach = [ping |-> ping, ssh |-> ssh]]
     IN inv' = [inv EXCEPT ![i] = AfterConnectionCheck(r, ping, "conn_ssh")]
  /\ UNCHANGED << now, attempts, lastSuccess, lastFailure, orphans, deployVars, toolVars >>

\* line 189: ssh -o ConnectTimeout=10 ... echo 'SSH OK'
ConnSsh(i) ==
  /\ inv[i].pc = "conn_ssh"
  /\ LET r == Append1(inv[i], "cmds", "ssh echo SSH OK")
     IN inv' = [inv EXCEPT ![i] = AfterConnectionCheck(r, r.reach.ssh, "done")]
  /\ UNCHANGED << now, attempts, lastSuccess, lastFailure, orphans, deployVars, toolVars >>

\* lines 199-210: recoverMissingFiles only logs; it issues no command
MissingFilesCommands == << >>

MissingFiles(i) ==
  /\ inv[i].pc = "rec_files"
  /\ inv' = [inv EXCEPT ![i] =
               Rethrow([inv[i] EXCEPT !.cmds = @ \o MissingFilesCommands], inv[i].raised)]
  /\ UNCHANGED << now, attempts, lastSuccess, lastFailure, orphans, deployVars, toolVars >>

-----------------------------------------------------------------------------
(* The caller and the clock                                                *)

\* the caller has observed the outcome; the slot is free for the next call
Settle(i) ==
  /\ inv[i].pc = "done"
  /\ inv' = [inv EXCEPT ![i] = IdleInv]
  /\ UNCHANGED << now, attempts, lastSuccess, lastFailure, orphans, deployVars, toolVars >>

Min(S) == CHOOSE x \in S : \A y \in S : x <= y

\* the expiry times of the timers started by this.timeout(timeoutMs), line 109
TimerExpiries ==
  {inv[i].actionStart + timeoutMs : i \in {j \in DOMAIN inv : inv[j].pc = "run"}}

\* time passes, up to the next timer expiry: a due timer fires (ActionTimeout)
\* before the clock moves on, and the continuation of `await detectDeadlock`
\* (a resolved promise) runs before any time passes
Tick ==
  /\ now + TickMs <= MaxTime
  /\ \A i \in DOMAIN inv : inv[i].pc # "checked"
  /\ \A e \in TimerExpiries : e > now
  /\ now' = Min({now + TickMs} \cup TimerExpiries)
  /\ UNCHANGED << attempts, lastSuccess, inv, lastFailure, orphans, deployVars, toolVars >>

GuardianInit ==
  /\ now = StartTime
  /\ attempts = [k \in Keys |-> NoAttempt]
  /\ lastSuccess = [k \in Keys |-> NoSuccess]
  /\ inv = [i \in Inv |-> IdleInv]
  /\ lastFailure = [k \in Keys |-> NoFailure]
  /\ orphans = {}

Next ==
  \/ \E i \in Inv, o \in Operations, t \in Targets : Call(i, o, t)
  \/ \E i \in Inv : Precheck(i)
  \/ \E i \in Inv, ok \in BOOLEAN : ForceRestart(i, ok)
  \/ \E i \in Inv : WaitReady(i)
  \/ \E i \in Inv : WaitGiveUp(i)
  \/ \E i \in Inv : ActionReturn(i)
  \/ \E i \in Inv, e \in ActionErrors : ActionThrow(i, e)
  \/ \E i \in Inv : ActionTimeout(i)
  \/ \E i \in Inv, n \in 0..Len(PortCommands) : PortRecovery(i, n)
  \/ \E i \in Inv, p \in BOOLEAN, s \in BOOLEAN : ConnPing(i, p, s)
  \/ \E i \in Inv : ConnSsh(i)
  \/ \E i \in Inv : MissingFiles(i)
  \/ \E i \in Inv : Settle(i)
  \/ \E k \in Keys : OrphanSettles(k)
  \/ Tick

-----------------------------------------------------------------------------
(* WMACS Enhanced Deployment (src/apex-enhanced-deployment.js, class       *)
(* WMACSEnhancedDeployment).  A run is one call of deployToEnvironment by   *)
(* the command line; its pc names the command it is waiting for.  Commits   *)
(* are numbered so that the parent of commit c is commit c - 1.             *)

MaxCommit == 3          \* commits 1..MaxCommit exist
MaxEndpoints == 4       \* longest endpoint list that is validated

\* Math.ceil(endpoints.length * 0.75): the threshold 0.75 as a fraction
thresholdNum == 3
thresholdDen == 4
\* process.exit codes of main
exitSuccess == 0
exitFailure == 1

Runs == {1, 2}
Commits == 1..MaxCommit

\* stdout of a command that printed nothing: '' where a commit is expected
EmptyOutput == 0
\* no synchronization has returned since the working copy was last moved
NoSync == EmptyOutput

\* How a spawned command ends: exit status 0, killed by a signal (the 60 s
\* limit of spawn: status null) before it did or printed anything, or a
\* non-zero exit status
Outcomes == {"ok", "killed", "fail"}
\* local git commands end with an exit status
LocalOutcomes == {"ok", "fail"}

\* executeCommand, line 321: resolve on status 0 or null, reject otherwise
CommandResolves(out) == out \in {"ok", "killed"}

\* what the resolved command printed
Stdout(out, value) == IF out = "ok" THEN value ELSE EmptyOutput

\* Error messages, by their fixed prefix
CommandFailed == "Command failed with code"
SyncFailed == "Repository synchronization failed"
ValidationFailed == "Post-deployment validation failed"
RollbackFailed == "Deployment failed and rollback failed"

NoDeployError == [kind |-> ""]
CommandError == [kind |-> CommandFailed]
SyncError == [kind |-> SyncFailed]

\* line 257: the message holds the two counts and nothing else
ValidationError(healthyCount, total, results) ==
  [kind |-> ValidationFailed, healthy |-> healthyCount, total |-> total]

\* line 291: the message holds the rollback error's message
RollbackError(rollbackError) ==
  [kind |-> RollbackFailed, cause |-> rollbackError.kind]

\* main, lines 374-379: the options object of a command-line run
CliOptions(force, cache, rollback) ==
  [forceSync |-> force, clearCache |-> cache, autoRollback |-> rollback]

AllCliOptions ==
  {CliOptions(f, c, a) : f \in BOOLEAN, c \in BOOLEAN, a \in BOOLEAN}

\* a property of the options object that may be undefined, read as a flag
Flag(options, name) == name \in DOMAIN options /\ options[name]

\* line 45: options.forcSync || false
ForceSyncArgument(options) == Flag(options, "forcSync")

\* line 189: options.clearCache !== false
ClearsCache(options) ==
  ~ ("clearCache" \in DOMAIN options /\ options.clearCache = FALSE)

NoValidation ==
  [success |-> FALSE, healthyEndpoints |-> 0, totalEndpoints |-> 0,
   results |-> << >>]

IdleRun ==
  [pc |-> "idle",
   options |-> CliOptions(FALSE, TRUE, FALSE),
   commit |-> EmptyOutput,           \* this.localState.commit
   containerCommit |-> EmptyOutput,  \* containerState.commit
   verifyCommit |-> EmptyOutput,     \* verifyCommit.stdout.trim()
   previousCommit |-> EmptyOutput,   \* previousCommit.stdout.trim()
   phases |-> << >>,                 \* phases entered, in order
   completed |-> << >>,              \* phases that returned, in order
   syncCmds |-> << >>,               \* commands issued by the sync phase
   probes |-> << >>,                 \* replies to the probes issued
   results |-> << >>,                \* the array `results` of validation
   raised |-> "",                    \* the phase whose error was caught
   error |-> NoDeployError,          \* the error caught at line 65
   thrown |-> NoDeployError,         \* the error deployToEnvironment threw
   validation |-> NoValidation,      \* `validation` of the returned object
   exit |-> Absent,                  \* exit code of the process
   startHead |-> EmptyOutput]        \* observer: the container's HEAD when
                                     \* the run started

ForwardPhases == << "pre-check", "sync", "deploy", "validate" >>

Last(s) == s[Len(s)]

\* A phase returns and the next one is entered, waiting for its first command
Enter(rec, phase, pc) ==
  [rec EXCEPT !.completed = Append(@, Last(rec.phases)),
              !.phases = Append(@, phase),
              !.pc = pc]

\* main, lines 392-396: the error reaches the command line
ExitWith(rec, error) ==
  [rec EXCEPT !.pc = "done", !.thrown = error, !.exit = exitFailure]

\* lines 53-63 and 384-391: the run returns its result
ReturnSuccess(rec, validation) ==
  [rec EXCEPT !.pc = "done", !.validation = validation,
              !.completed = Append(@, Last(rec.phases)),
              !.exit = exitSuccess]

\* faulty variant: after the catch has run the run reports success
ThrowCaughtSwallowed(rec) ==
  [rec EXCEPT !.pc = "done", !.exit = exitSuccess]

\* line 73: throw error, the error caught at line 65
ThrowCaught(rec) == ExitWith(rec, rec.error)

\* faulty variant: the error is noted and the run carries on where it was
RaiseAndCarryOn(rec, error) ==
  [rec EXCEPT !.raised = Last(rec.phases), !.error = error]

\* lines 65-74: the catch of deployToEnvironment, up to its first await
Raise(rec, error) ==
  LET caught == [rec EXCEPT !.raised = Last(rec.phases), !.error = error]
  IN IF Flag(rec.options, "autoRollback")
       THEN [caught EXCEPT !.phases = Append(@, "rollback"), !.pc = "rb_prev"]
       ELSE ThrowCaught(caught)

\* the run is on the rollback side path
InRollback(rec) == rec.raised # ""

\* faulty variant: a failed rollback is attempted again
RollbackRaiseRetries(rec, rollbackError) ==
  [rec EXCEPT !.phases = Append(@, "rollback"), !.pc = "rb_prev"]

\* lines 289-292: the catch of attemptRollback; its error replaces the first
RollbackRaise(rec, rollbackError) == ExitWith(rec, RollbackError(rollbackError))

\* a command of applicationDeployment rejects: line 65 or line 289 catches
Fail(rec, error) ==
  IF InRollback(rec) THEN RollbackRaise(rec, error) ELSE Raise(rec, error)

-----------------------------------------------------------------------------
(* deployToEnvironment: start and phase 1                                  *)

\* main, lines 374-384, and lines 29-42: the run starts its pre-check
StartRun(r, options) ==
  /\ run[r].pc = "idle"
  /\ run' = [run EXCEPT ![r] =
       [IdleRun EXCEPT !.pc = "pre", !.options = options,
                       !.phases = << "pre-check" >>,
                       !.startHead = remoteHead]]
  /\ UNCHANGED << guardianVars, toolVars, remoteHead, trackingRef, originHead, localHead, endpoints,
                  synced >>

\* preDeploymentVerification, lines 77-101: three local git commands
PreDeploymentVerification(r, out) ==
  /\ run[r].pc = "pre"
  /\ run' = [run EXCEPT ![r] =
       IF CommandResolves(out)
         THEN Enter([@ EXCEPT !.commit = Stdout(out, localHead)],
                    "sync", "sync_read")
         ELSE Raise(@, CommandError)]
  /\ UNCHANGED << guardianVars, toolVars, remoteHead, trackingRef, originHead, localHead, endpoints,
                  synced >>

-----------------------------------------------------------------------------
(* repositorySynchronization                                               *)

\* line 120
NeedsSync(containerCommit, localCommit) == containerCommit # localCommit

\* line 122
SyncRequired(containerCommit, localCommit, forceSync) ==
  NeedsSync(containerCommit, localCommit) \/ forceSync

\* lines 108-122: read the container's HEAD and decide
ReadContainerCommit(r, out) ==
  /\ run[r].pc = "sync_read"
  /\ run' = [run EXCEPT ![r] =
       IF CommandResolves(out)
         THEN LET c == Stdout(out, remoteHead)
              IN [@ EXCEPT !.containerCommit = c,
                           !.pc = IF SyncRequired(c, run[r].commit,
                                        ForceSyncArgument(run[r].options))
                                    THEN "sync_fetch" ELSE "sync_files"]
         ELSE Raise(@, CommandError)]
  /\ UNCHANGED << guardianVars, toolVars, remoteHead, trackingRef, originHead, localHead, endpoints,
                  synced >>

\* lines 126-128: git fetch origin --force
Fetch(r, out) ==
  /\ run[r].pc = "sync_fetch"
  /\ LET issued == [run[r] EXCEPT !.syncCmds = Append(@, "fetch")]
     IN run' = [run EXCEPT ![r] =
          IF CommandResolves(out)
            THEN [issued EXCEPT !.pc = "sync_reset"]
            ELSE Raise(issued, CommandError)]
  /\ trackingRef' = IF out = "ok" THEN originHead ELSE trackingRef
  /\ UNCHANGED << guardianVars, toolVars, remoteHead, originHead, localHead, endpoints, synced >>

\* lines 130-132: git reset --hard origin/<branch>
HardReset(r, out) ==
  /\ run[r].pc = "sync_reset"
  /\ LET issued == [run[r] EXCEPT !.syncCmds = Append(@, "reset")]
     IN run' = [run EXCEPT ![r] =
          IF CommandResolves(out)
            THEN [issued EXCEPT !.pc = "sync_verify"]
            ELSE Raise(issued, CommandError)]
  /\ remoteHead' = IF out = "ok" THEN trackingRef ELSE remoteHead
  /\ synced' = IF out = "ok" THEN NoSync ELSE synced
  /\ UNCHANGED << guardianVars, toolVars, trackingRef, originHead, localHead, endpoints >>

\* faulty variant: the commit read back is not compared
SyncVerifiedUnchecked(verifyCommit, localCommit) == TRUE

\* line 139
SyncVerified(verifyCommit, localCommit) == verifyCommit = localCommit

\* lines 135-143: read HEAD back and compare it with the local commit
VerifyCommit(r, out) ==
  /\ run[r].pc = "sync_verify"
  /\ run' = [run EXCEPT ![r] =
       IF CommandResolves(out)
         THEN LET v == Stdout(out, remoteHead)
                  read == [@ EXCEPT !.verifyCommit = v]
              IN IF SyncVerified(v, run[r].commit)
                   THEN [read EXCEPT !.pc = "sync_files"]
                   ELSE Raise(read, SyncError)
         ELSE Raise(@, CommandError)]
  /\ UNCHANGED << guardianVars, toolVars, remoteHead, trackingRef, originHead, localHead, endpoints,
                  synced >>

\* lines 149 and 152-177: validateCriticalFiles only logs, whatever the
\* md5sum commands give; the synchronization returns and phase 3 starts
ValidateCriticalFiles(r) ==
  /\ run[r].pc = "sync_files"
  /\ run' = [run EXCEPT ![r] = Enter(@, "deploy", "app_stop")]
  /\ synced' = run[r].commit
  /\ UNCHANGED << guardianVars, toolVars, remoteHead, trackingRef, originHead, localHead, endpoints >>

-----------------------------------------------------------------------------
(* applicationDeployment, called by phase 3 and by the rollback            *)

\* line 48 passes the run's options, line 285 passes { clearCache: true }
DeploymentOptions(rec) ==
  IF InRollback(rec) THEN [clearCache |-> TRUE] ELSE rec.options

\* lines 184-189: pkill of the running application
StopProcesses(r, out) ==
  /\ run[r].pc = "app_stop"
  /\ run' = [run EXCEPT ![r] =
       IF CommandResolves(out)
         THEN [@ EXCEPT !.pc = IF ClearsCache(DeploymentOptions(run[r]))
                                 THEN "app_cache" ELSE "app_start"]
         ELSE Fail(@, CommandError)]
  /\ UNCHANGED << guardianVars, toolVars, remoteHead, trackingRef, originHead, localHead, endpoints,
                  synced >>

\* lines 189-194: rm -rf .next node_modules/.cache
ClearCache(r, out) ==
  /\ run[r].pc = "app_cache"
  /\ run' = [run EXCEPT ![r] =
       IF CommandResolves(out)
         THEN [@ EXCEPT !.pc = "app_start"]
         ELSE Fail(@, CommandError)]
  /\ UNCHANGED << guardianVars, toolVars, remoteHead, trackingRef, originHead, localHead, endpoints,
                  synced >>

\* lines 197-203: nohup npm run dev
StartApplication(r, out) ==
  /\ run[r].pc = "app_start"
  /\ run' = [run EXCEPT ![r] =
       IF CommandResolves(out)
         THEN [@ EXCEPT !.pc = "app_sleep"]
         ELSE Fail(@, CommandError)]
  /\ UNCHANGED << guardianVars, toolVars, remoteHead, trackingRef, originHead, localHead, endpoints,
                  synced >>

\* line 207: the startup delay ends.  Phase 3 returns and phase 4 starts
\* (lines 48-51); on the side path the rollback has completed (line 287)
\* and deployToEnvironment throws the error it caught (line 73)
StartupDelay(r) ==
  /\ run[r].pc = "app_sleep"
  /\ run' = [run EXCEPT ![r] =
       IF InRollback(@)
         THEN ThrowCaught(@)
         ELSE Enter(@, "validate", "validate")]
  /\ UNCHANGED << guardianVars, toolVars, remoteHead, trackingRef, originHead, localHead, endpoints,
                  synced >>

-----------------------------------------------------------------------------
(* postDeploymentValidation                                                *)

\* lines 213-217: the urls of the endpoints; each expects status '200'
Endpoints == << "/admin", "/api/admin/users", "/dashboard" >>
expectedStatus == "200"

\* an endpoint list of n entries: the list of the source, cut or extended
EndpointList(n) ==
  [i \in 1..n |-> IF i <= Len(Endpoints) THEN Endpoints[i] ELSE "/extra"]

\* a probe whose command was rejected
Rejected == "<rejected>"
\* what a probe gives: the status printed by curl, nothing (killed), or a
\* rejection
ProbeReplies == {"200", "500", "", Rejected}

\* lines 228-238: the probe resolved with a status
ProbeResolved(rec, url, status) ==
  [rec EXCEPT !.results =
     Append(@, [url |-> url, status |-> status,
                healthy |-> status = expectedStatus])]

\* faulty variant: the rejection of a probe leaves the loop
ProbeCatchRethrows(rec, url) == Raise(rec, CommandError)

\* lines 242-251: the catch inside the loop
ProbeCatch(rec, url) ==
  [rec EXCEPT !.results =
     Append(@, [url |-> url, status |-> "ERROR", healthy |-> FALSE])]

HealthyCount(results) ==
  Cardinality({i \in 1..Len(results) : results[i].healthy})

\* Math.ceil(a / b) for naturals a and b > 0
Ceil(a, b) == (a + b - 1) \div b

\* faulty variant: the threshold is rounded down
ValidationSuccessFloor(healthyCount, total) ==
  healthyCount >= (total * thresholdNum) \div thresholdDen

\* line 254: healthyCount >= Math.ceil(endpoints.length * 0.75)
ValidationSuccess(healthyCount, total) ==
  healthyCount >= Ceil(total * thresholdNum, thresholdDen)

\* lines 254-267, and lines 53-63 of the caller
Verdict(rec, total) ==
  LET healthyCount == HealthyCount(rec.results)
  IN IF ValidationSuccess(healthyCount, total)
       THEN ReturnSuccess(rec,
              [success |-> TRUE, healthyEndpoints |-> healthyCount,
               totalEndpoints |-> total, results |-> rec.results])
       ELSE Raise(rec, ValidationError(healthyCount, total, rec.results))

\* lines 222-252: one turn of the loop; after the last one, the verdict
Probe(r, reply) ==
  /\ run[r].pc = "validate"
  /\ Len(run[r].results) < Len(endpoints)
  /\ LET url == endpoints[Len(run[r].results) + 1]
         issued == [run[r] EXCEPT !.probes = Append(@, reply)]
         recorded == IF reply = Rejected
                       THEN ProbeCatch(issued, url)
                       ELSE ProbeResolved(issued, url, reply)
     IN run' = [run EXCEPT ![r] =
          IF recorded.pc = "validate" /\ Len(recorded.results) = Len(endpoints)
            THEN Verdict(recorded, Len(endpoints))
            ELSE recorded]
  /\ UNCHANGED << guardianVars, toolVars, remoteHead, trackingRef, originHead, localHead, endpoints,
                  synced >>

-----------------------------------------------------------------------------
(* attemptRollback                                                         *)

HasParent(c) == c > 1
Parent(c) == c - 1

\* lines 275-277: git rev-parse HEAD~1, which fails on a root commit
RollbackPrevious(r, out) ==
  /\ run[r].pc = "rb_prev"
  /\ run' = [run EXCEPT ![r] =
       IF CommandResolves(out) /\ (out = "ok" => HasParent(remoteHead))
         THEN [@ EXCEPT !.previousCommit = Stdout(out, Parent(remoteHead)),
                        !.pc = "rb_reset"]
         ELSE RollbackRaise(@, CommandError)]
  /\ UNCHANGED << guardianVars, toolVars, remoteHead, trackingRef, originHead, localHead, endpoints,
                  synced >>

\* lines 280-285: git reset --hard <previous>; without a commit the reset
\* is to HEAD.  Then applicationDeployment is called
RollbackReset(r, out) ==
  /\ run[r].pc = "rb_reset"
  /\ run' = [run EXCEPT ![r] =
       IF CommandResolves(out)
         THEN [@ EXCEPT !.pc = "app_stop"]
         ELSE RollbackRaise(@, CommandError)]
  /\ remoteHead' = IF out = "ok" /\ run[r].previousCommit # EmptyOutput
                     THEN run[r].previousCommit ELSE remoteHead
  /\ synced' = IF out = "ok" THEN NoSync ELSE synced
  /\ UNCHANGED << guardianVars, toolVars, trackingRef, originHead, localHead, endpoints >>

\* process.exit, lines 391 and 395: the next run is a new process
ProcessExit(r) ==
  /\ run[r].pc = "done"
  /\ run' = [run EXCEPT ![r] = IdleRun]
  /\ UNCHANGED << guardianVars, toolVars, remoteHead, trackingRef, originHead, localHead, endpoints,
                  synced >>

-----------------------------------------------------------------------------
(* executeCommand of the deployment tool, one call on its own              *)

MaxStderrLines == 2     \* longest stderr of a command, in lines

\* exit statuses named at line 321
successCode == 0
sshFailureCode == 255
\* `code` of the close event when the child was killed by a signal: null
NullCode == Absent
\* exit statuses of bash, git and ssh
ExitCodes == {successCode, 1, 127, 128, sshFailureCode}

Banner == "Warning: Permanently added"
StderrLines == {Banner, "fatal: not a git repository"}

RECURSIVE SeqsUpTo(_, _)
\* the sequences over S of at most n elements
SeqsUpTo(S, n) ==
  IF n = 0 THEN {<< >>}
  ELSE LET shorter == SeqsUpTo(S, n - 1)
       IN shorter \cup {Append(q, x) : q \in shorter, x \in S}

StderrValues == SeqsUpTo(StderrLines, MaxStderrLines)
StdoutValues == {"", "3f2a9c1"}

\* stderr.includes('Warning: Permanently added')
HasBanner(stderr) == \E i \in 1..Len(stderr) : stderr[i] = Banner

\* stderr.trim().split('\\n').length at line 319: the separator is the two
\* characters backslash and n, which the output of a command does not hold,
\* so the text is one piece however many lines it has
SplitPieces(stderr) == 1

\* line 319
IsSSHWarning(stderr) == HasBanner(stderr) /\ SplitPieces(stderr) <= 2

\* line 321
CloseResolves(code, stderr) ==
  \/ code = successCode
  \/ code = NullCode
  \/ (code = sshFailureCode /\ IsSSHWarning(stderr))

IdleCommand ==
  [pc |-> "idle", stdout |-> "", stderr |-> << >>, code |-> NullCode,
   timedOut |-> FALSE, event |-> "", settled |-> "pending",
   value |-> "", error |-> NoDeployError]

\* lines 318-326: the handler of the close event settles the promise
CloseHandler(c, code, timedOut) ==
  LET closed == [c EXCEPT !.pc = "closed", !.code = code, !.event = "close",
                          !.timedOut = timedOut]
  IN IF CloseResolves(code, c.stderr)
       THEN [closed EXCEPT !.settled = "resolved", !.value = c.stdout]
       ELSE [closed EXCEPT !.settled = "rejected",
                           !.error = [kind |-> CommandFailed, code |-> code,
                                      stderr |-> c.stderr]]

\* the child exits with a status
CommandExits(code) ==
  /\ command.pc = "running"
  /\ command' = CloseHandler(command, code, FALSE)
  /\ UNCHANGED << guardianVars, deployVars, cli, resourceLocks,
                  operationQueue, opState >>

\* line 304: after 60 s spawn kills the child; it closes with status null
CommandTimesOut ==
  /\ command.pc = "running"
  /\ command' = CloseHandler(command, NullCode, TRUE)
  /\ UNCHANGED << guardianVars, deployVars, cli, resourceLocks,
                  operationQueue, opState >>

\* lines 328-330: the child could not be spawned
CommandSpawnError ==
  /\ command.pc = "running"
  /\ command' = [command EXCEPT !.pc = "closed", !.event = "error",
                                !.settled = "rejected",
                                !.error = [kind |-> "spawn"]]
  /\ UNCHANGED << guardianVars, deployVars, cli, resourceLocks,
                  operationQueue, opState >>

-----------------------------------------------------------------------------
(* The command lines of the two guardians: src/wmacs-guardian.js, lines    *)
(* 322-343, and class WMACSGuardianIsolated of src/DEPLOYMENT_STANDARDS.md, *)
(* lines 618-637.  `cli` is one process started from a shell.              *)

\* exit status of a node process whose event loop drains and that never
\* called process.exit
cleanExit == 0
\* process.exit(result ? 0 : 1) of the health-check command
healthyExit == 0
unhealthyExit == 1

\* config of the isolated guardian before init()
NullConfig == "null"

IdleCli ==
  [tool |-> "", pc |-> "idle",
   action |-> "",          \* process.argv[2]
   arg |-> "",             \* process.argv[3], '' when absent
   target |-> "",          \* the container or the environment acted on
   config |-> NullConfig,  \* this.config of the isolated guardian
   answer |-> "",          \* what the target replies to a probe
   todo |-> << >>,         \* environments status() has still to probe
   commands |-> << >>,     \* how the commands issued ended, in order
   healthy |-> << >>,      \* values returned by healthCheck, in order
   outcome |-> "pending",  \* the promise the command line waits for
   error |-> NoError,
   exit |-> Absent]

\* the promise of the command line is rejected; .catch logs the error
CliRejected(c, error) ==
  [c EXCEPT !.pc = "settled", !.outcome = "rejected", !.error = error]

\* the promise of the command line is fulfilled; .then logs the result
CliResolved(c) == [c EXCEPT !.pc = "settled", !.outcome = "resolved"]

\* a || b of two strings
OrElse(a, b) == IF a # "" THEN a ELSE b

\* src/wmacs-guardian.js ---------------------------------------------------

GuardianActions == {"start", "test", "help"}
ContainerArgs == {"", "134", "135", "133", "132"}
\* errors of a command run by the guarded actions
CliCommandErrors == {ErrRefused, ErrCommand, ErrNoFile}
ErrLogin == {"Login failed"}
ErrSyntax == {"Unexpected token"}

\* lines 133-137: the promise of timeout(ms) has no resolve; when the
\* timer fires it is rejected
TimeoutSettles(ms) == "rejected"

\* line 252: await this.timeout(ms) inside a guarded action; lines 254-269
\* run only if the promise is fulfilled
AwaitTimeout(c, ms, pc) ==
  IF TimeoutSettles(ms) = "rejected"
    THEN CliRejected(c, ErrTimeout)
    ELSE [c EXCEPT !.pc = pc]

\* lines 325-343: the switch on process.argv[2]
GuardianCli(action, container) ==
  /\ cli.pc = "idle"
  /\ LET started == [IdleCli EXCEPT !.tool = "guardian", !.action = action,
                                    !.arg = container,
                                    !.target = OrElse(container, "134")]
     IN cli' = CASE action = "start" -> [started EXCEPT !.pc = "stop"]
                 [] action = "test" -> [started EXCEPT !.pc = "login"]
                 [] OTHER -> [started EXCEPT !.pc = "settled"]
  /\ UNCHANGED << guardianVars, deployVars, command, resourceLocks,
                  operationQueue, opState >>

\* lines 249-252: the stop command; when it returns the action awaits
\* timeout(2000).  An error is thrown again by executeWithGuardian (line
\* 129)
StopExisting(out) ==
  /\ cli.pc = "stop"
  /\ LET issued == [cli EXCEPT !.commands =
                      Append(@, IF out = NoError THEN "ok" ELSE "fail")]
     IN cli' = IF out = NoError
                 THEN AwaitTimeout(issued, 2000, "start")
                 ELSE CliRejected(issued, out)
  /\ UNCHANGED << guardianVars, deployVars, command, resourceLocks,
                  operationQueue, opState >>

\* lines 302-307 of guardedLoginTest: the login request and JSON.parse
LoginRequest(out, reply) ==
  /\ cli.pc = "login"
  /\ LET issued == [cli EXCEPT !.commands =
                      Append(@, IF out = NoError THEN "ok" ELSE "fail")]
     IN cli' = CASE out # NoError -> CliRejected(issued, out)
                 [] reply = "success" -> [issued EXCEPT !.pc = "dashboard"]
                 [] reply = "failure" -> CliRejected(issued, ErrLogin)
                 [] OTHER -> CliRejected(issued, ErrSyntax)
  /\ UNCHANGED << guardianVars, deployVars, command, resourceLocks,
                  operationQueue, opState >>

\* lines 310-313: the dashboard request; the test returns its result
DashboardRequest(out) ==
  /\ cli.pc = "dashboard"
  /\ LET issued == [cli EXCEPT !.commands =
                      Append(@, IF out = NoError THEN "ok" ELSE "fail")]
     IN cli' = IF out = NoError
                 THEN CliResolved(issued)
                 ELSE CliRejected(issued, out)
  /\ UNCHANGED << guardianVars, deployVars, command, resourceLocks,
                  operationQueue, opState >>

\* Neither handler of lines 328-330 and 334-336, nor the default branch,
\* calls process.exit: the process ends when nothing is left to run
EventLoopDrains ==
  /\ cli.pc = "settled"
  /\ cli' = [cli EXCEPT !.pc = "exited", !.exit = cleanExit]
  /\ UNCHANGED << guardianVars, deployVars, command, resourceLocks,
                  operationQueue, opState >>

\* WMACSGuardianIsolated --------------------------------------------------

IsolatedCommands == {"deploy-staging", "health-check", "status", "help"}
EnvironmentArgs == {"", "staging", "production", "qa"}
\* the environments of .wmacs/config/wmacs-config.json
ConfiguredEnvironments == << "staging", "production" >>
\* what curl prints for a target (%{http_code}), or how the probe fails
ProbeAnswers == {"200", "302", "404", "500", "error", "timeout"}

ErrNullConfig == {"Cannot read properties of null"}
ErrNotConfigured == {"not configured"}
ErrLoadConfig == {"Failed to load config"}

\* statusCode.startsWith('2') || statusCode.startsWith('3'), lines 570-571
IsHealthyStatus(statusCode) == statusCode \in {"200", "302"}

\* lines 559-562: healthCheck up to its first await
HealthCheckEnter(c, environment) ==
  IF c.config = NullConfig THEN CliRejected(c, ErrNullConfig)
  ELSE IF \A i \in 1..Len(ConfiguredEnvironments) :
            ConfiguredEnvironments[i] # environment
    THEN CliRejected(c, ErrNotConfigured)
  ELSE [c EXCEPT !.pc = "probe", !.target = environment]

\* lines 609-612: the loop of status() calls healthCheck for the next
\* environment, or status() returns
StatusLoop(c) ==
  IF c.todo = << >> THEN CliResolved(c)
  ELSE HealthCheckEnter([c EXCEPT !.todo = Tail(@)], Head(c.todo))

\* lines 621-637: the switch on process.argv[2]; health-check calls
\* healthCheck at once, the other two commands await init() first
IsolatedCli(cmd, environment, answer) ==
  /\ cli.pc = "idle"
  /\ LET started == [IdleCli EXCEPT !.tool = "isolated", !.action = cmd,
                                    !.arg = environment, !.answer = answer]
     IN cli' = CASE cmd = "health-check" ->
                      HealthCheckEnter(
                        [started EXCEPT !.target =
                                          OrElse(environment, "staging")],
                        OrElse(environment, "staging"))
                 [] cmd \in {"deploy-staging", "status"} ->
                      [started EXCEPT !.pc = "init"]
                 [] OTHER -> [started EXCEPT !.pc = "settled"]
  /\ UNCHANGED << guardianVars, deployVars, command, resourceLocks,
                  operationQueue, opState >>

\* lines 525-533: init() reads the configuration file
LoadConfig(ok) ==
  /\ cli.pc = "init"
  /\ cli' = IF ~ ok THEN CliRejected(cli, ErrLoadConfig)
            ELSE LET loaded == [cli EXCEPT !.config = "loaded"]
                 IN IF cli.action = "status"
                      THEN StatusLoop([loaded EXCEPT
                                         !.todo = ConfiguredEnvironments])
                      ELSE [loaded EXCEPT !.pc = "build"]
  /\ UNCHANGED << guardianVars, deployVars, command, resourceLocks,
                  operationQueue, opState >>

\* lines 585-600 of deployToStaging: the build command, then the health
\* check of staging
Build(ok) ==
  /\ cli.pc = "build"
  /\ LET issued == [cli EXCEPT !.commands =
                      Append(@, IF ok THEN "ok" ELSE "fail")]
     IN cli' = IF ok THEN HealthCheckEnter(issued, "staging")
               ELSE CliRejected(issued, ErrCommand)
  /\ UNCHANGED << guardianVars, deployVars, command, resourceLocks,
                  operationQueue, opState >>

\* lines 564-577: the probe of healthCheck and what its caller does with
\* the value returned
HealthProbe ==
  /\ cli.pc = "probe"
  /\ LET failed == cli.answer \in {"error", "timeout"}
         result == ~ failed /\ IsHealthyStatus(cli.answer)
         probed == [cli EXCEPT !.commands =
                              Append(@, IF failed THEN "fail" ELSE "ok"),
                            !.healthy = Append(@, result)]
     IN cli' = CASE cli.action = "status" -> StatusLoop(probed)
                 [] cli.action = "health-check" ->
                      [probed EXCEPT !.pc = "exited", !.outcome = "resolved",
                                     !.exit = IF result THEN healthyExit
                                              ELSE unhealthyExit]
                 [] OTHER -> CliResolved(probed)
  /\ UNCHANGED << guardianVars, deployVars, command, resourceLocks,
                  operationQueue, opState >>

-----------------------------------------------------------------------------
(* APEXGuardianCoordinator of src/DEPLOYMENT_STANDARDS.md: routeOperation  *)
(* and processQueue.  An operation is one call of routeOperation from      *)
(* outside; its state says where that call, or the call made again for it  *)
(* by processQueue, stands.                                                *)

MaxOps == 4             \* operations routed from outside

Ops == 1..MaxOps
OperationTypes == {"database", "github"}
OperationResources == {"staging"}

\* line 723: `${operation.type}-${operation.resource}`
ResourceKey(type, resource) == << type, resource >>

NewOperation == [st |-> "new", key |-> << >>]

\* lines 722-732: the resource is locked and the operation is pushed on the
\* queue, or the lock is taken and executeOperation is awaited
Route(o, key) ==
  IF key \in resourceLocks
    THEN /\ operationQueue' = Append(operationQueue, o)
         /\ opState' = [opState EXCEPT ![o] = [st |-> "queued", key |-> key]]
         /\ UNCHANGED resourceLocks
    ELSE /\ resourceLocks' = resourceLocks \cup {key}
         /\ opState' = [opState EXCEPT ![o] =
                          [st |-> "executing", key |-> key]]
         /\ UNCHANGED operationQueue

\* lines 715-732: a call from outside
RouteOperation(o, type, resource) ==
  /\ opState[o].st = "new"
  /\ Route(o, ResourceKey(type, resource))
  /\ UNCHANGED << guardianVars, deployVars, command, cli >>

\* lines 734-748 and 901-907: executeOperation returns or throws; the
\* finally block deletes the lock and processQueue shifts one operation off
\* the queue, to be routed again by setImmediate
OperationEnds(o, ok) ==
  /\ opState[o].st = "executing"
  /\ resourceLocks' = resourceLocks \ {opState[o].key}
  /\ LET ended == [opState EXCEPT ![o].st = IF ok THEN "done" ELSE "failed"]
     IN IF operationQueue = << >>
          THEN /\ opState' = ended
               /\ UNCHANGED operationQueue
          ELSE /\ opState' = [ended EXCEPT ![Head(operationQueue)].st =
                                             "immediate"]
               /\ operationQueue' = Tail(operationQueue)
  /\ UNCHANGED << guardianVars, deployVars, command, cli >>

\* line 906: the callback of setImmediate routes the operation again
Immediate(o) ==
  /\ opState[o].st = "immediate"
  /\ Route(o, opState[o].key)
  /\ UNCHANGED << guardianVars, deployVars, command, cli >>

\* no tool has been started
ToolsIdle ==
  /\ command = IdleCommand
  /\ cli = IdleCli
  /\ resourceLocks = {}
  /\ operationQueue = << >>
  /\ opState = [o \in Ops |-> NewOperation]

-----------------------------------------------------------------------------
(* Specifications of the deployment tool                                   *)

\* no run has been started
DeployIdle ==
  /\ run = [r \in Runs |-> IdleRun]
  /\ remoteHead = MaxCommit
  /\ trackingRef = MaxCommit
  /\ originHead = MaxCommit
  /\ localHead = MaxCommit
  /\ endpoints = Endpoints
  /\ synced = NoSync

\* one step of run r, its commands ending as outs allows
DeployStep(r, options, localOuts, outs, replies) ==
  \/ \E o \in options : StartRun(r, o)
  \/ \E out \in localOuts : PreDeploymentVerification(r, out)
  \/ \E out \in outs : ReadContainerCommit(r, out)
  \/ \E out \in outs : Fetch(r, out)
  \/ \E out \in outs : HardReset(r, out)
  \/ \E out \in outs : VerifyCommit(r, out)
  \/ ValidateCriticalFiles(r)
  \/ \E out \in outs : StopProcesses(r, out)
  \/ \E out \in outs : ClearCache(r, out)
  \/ \E out \in outs : StartApplication(r, out)
  \/ StartupDelay(r)
  \/ \E reply \in replies : Probe(r, reply)
  \/ \E out \in outs : RollbackPrevious(r, out)
  \/ \E out \in outs : RollbackReset(r, out)
  \/ ProcessExit(r)

\* The command line run again and again, one run at a time, on a container
\* and an origin at any commits
InitDeploy ==
  /\ GuardianInit
  /\ run = [r \in Runs |-> IdleRun]
  /\ remoteHead \in Commits
  /\ trackingRef = remoteHead
  /\ originHead \in Commits
  /\ localHead \in Commits
  /\ endpoints = Endpoints
  /\ synced = NoSync
  /\ ToolsIdle

NextDeploy ==
  DeployStep(1, AllCliOptions, LocalOutcomes, Outcomes, ProbeReplies)

SpecDeploy == InitDeploy /\ [][NextDeploy]_vars

\* Two command lines run at the same time against the same container, the
\* local commit pushed to origin
InitConcurrent ==
  /\ GuardianInit
  /\ run = [r \in Runs |-> IdleRun]
  /\ remoteHead \in Commits
  /\ trackingRef = remoteHead
  /\ originHead = MaxCommit
  /\ localHead = MaxCommit
  /\ endpoints = Endpoints
  /\ synced = NoSync
  /\ ToolsIdle

NextConcurrent ==
  \E r \in Runs :
    DeployStep(r, {CliOptions(FALSE, TRUE, TRUE)}, LocalOutcomes,
               LocalOutcomes, {expectedStatus, Rejected})

SpecConcurrent == InitConcurrent /\ [][NextConcurrent]_vars

\* postDeploymentValidation on its own, for endpoint lists of any length:
\* a run that has reached phase 4
AtValidation ==
  [IdleRun EXCEPT !.pc = "validate", !.commit = MaxCommit,
                  !.containerCommit = MaxCommit,
                  !.phases = ForwardPhases,
                  !.completed = << "pre-check", "sync", "deploy" >>]

InitValidation ==
  /\ GuardianInit
  /\ run = [r \in Runs |-> IF r = 1 THEN AtValidation ELSE IdleRun]
  /\ remoteHead = MaxCommit
  /\ trackingRef = MaxCommit
  /\ originHead = MaxCommit
  /\ localHead = MaxCommit
  /\ endpoints \in {EndpointList(n) : n \in 1..MaxEndpoints}
  /\ synced = MaxCommit
  /\ ToolsIdle

NextValidation == \E reply \in ProbeReplies : Probe(1, reply)

SpecValidation == InitValidation /\ [][NextValidation]_vars

-----------------------------------------------------------------------------
(* The guardian alone: no deployment is running                            *)

Init == GuardianInit /\ DeployIdle /\ ToolsIdle
Spec == Init /\ [][Next]_vars

-----------------------------------------------------------------------------
(* The guardian called, through the exported executeWithGuardian, with     *)
(* operation names and targets that contain the separator of the key       *)

WideOperations == {"app", "app-start"}
WideTargets == {"134", "start-134"}
WideKeys == {Key(o, t) : o \in WideOperations, t \in WideTargets}

InitKeys ==
  /\ now = StartTime
  /\ attempts = [k \in WideKeys |-> NoAttempt]
  /\ lastSuccess = [k \in WideKeys |-> NoSuccess]
  /\ inv = [i \in Inv |-> IdleInv]
  /\ lastFailure = [k \in WideKeys |-> NoFailure]
  /\ orphans = {}
  /\ DeployIdle
  /\ ToolsIdle

NextKeys ==
  \/ \E i \in Inv, o \in WideOperations, t \in WideTargets : Call(i, o, t)
  \/ \E i \in Inv : Precheck(i)
  \/ \E i \in Inv : ActionReturn(i)
  \/ \E i \in Inv : ActionThrow(i, ErrBind)
  \/ \E i \in Inv : Settle(i)

SpecKeys == InitKeys /\ [][NextKeys]_vars

\* Two callers of executeWithGuardian whose invocations for the same key
\* are in flight at the same time; the clock stops before a wait for the
\* container can run out
Callers == {1, 2}

InitInterleaved ==
  /\ now = StartTime
  /\ attempts = [k \in Keys |-> NoAttempt]
  /\ lastSuccess = [k \in Keys |-> NoSuccess]
  /\ inv = [i \in Callers |-> IdleInv]
  /\ lastFailure = [k \in Keys |-> NoFailure]
  /\ orphans = {}
  /\ DeployIdle
  /\ ToolsIdle

NextInterleaved ==
  \/ \E i \in Callers, o \in Operations, t \in Targets : Call(i, o, t)
  \/ \E i \in Callers : Precheck(i)
  \/ \E i \in Callers, ok \in BOOLEAN : ForceRestart(i, ok)
  \/ \E i \in Callers : WaitReady(i)
  \/ \E i \in Callers : ActionReturn(i)
  \/ \E i \in Callers : ActionThrow(i, ErrBind)
  \/ \E i \in Callers : ActionTimeout(i)
  \/ \E k \in Keys : OrphanSettles(k)
  \/ \E i \in Callers : Settle(i)
  \/ Tick

SpecInterleaved == InitInterleaved /\ [][NextInterleaved]_vars

-----------------------------------------------------------------------------
(* Specifications of the other tools                                       *)

\* executeCommand called once, for a command with any output
InitCommand ==
  /\ GuardianInit
  /\ DeployIdle
  /\ command \in {[IdleCommand EXCEPT !.pc = "running", !.stdout = out,
                                      !.stderr = err] :
                    out \in StdoutValues, err \in StderrValues}
  /\ cli = IdleCli
  /\ resourceLocks = {}
  /\ operationQueue = << >>
  /\ opState = [o \in Ops |-> NewOperation]

NextCommand ==
  \/ \E code \in ExitCodes : CommandExits(code)
  \/ CommandTimesOut
  \/ CommandSpawnError

SpecCommand == InitCommand /\ [][NextCommand]_vars

\* node wmacs-guardian.js <action> <container>, run once
NextGuardianCli ==
  \/ \E action \in GuardianActions, container \in ContainerArgs :
       GuardianCli(action, container)
  \/ \E out \in {NoError} \cup CliCommandErrors : StopExisting(out)
  \/ \E out \in {NoError} \cup CliCommandErrors,
        reply \in {"success", "failure", "not json"} :
       LoginRequest(out, reply)
  \/ \E out \in {NoError} \cup CliCommandErrors : DashboardRequest(out)
  \/ EventLoopDrains

SpecGuardianCli == Init /\ [][NextGuardianCli]_vars

\* node wmacs-guardian-isolated.js <command> <environment>, run once
NextIsolatedCli ==
  \/ \E cmd \in IsolatedCommands, environment \in EnvironmentArgs,
        answer \in ProbeAnswers :
       IsolatedCli(cmd, environment, answer)
  \/ \E ok \in BOOLEAN : LoadConfig(ok)
  \/ \E ok \in BOOLEAN : Build(ok)
  \/ HealthProbe
  \/ EventLoopDrains

SpecIsolatedCli == Init /\ [][NextIsolatedCli]_vars

\* the coordinator routing MaxOps operations
NextCoordinator ==
  \/ \E o \in Ops, type \in OperationTypes, resource \in OperationResources :
       RouteOperation(o, type, resource)
  \/ \E o \in Ops, ok \in BOOLEAN : OperationEnds(o, ok)
  \/ \E o \in Ops : Immediate(o)

SpecCoordinator == Init /\ [][NextCoordinator]_vars


-----------------------------------------------------------------------------
(* Properties                                                              *)

Done(i) == inv[i].pc = "done"
Succeeded(i) == Done(i) /\ inv[i].result = "returned"
Failed(i) == Done(i) /\ inv[i].result = "threw"

\* forceRecovery was called before the action / from a recovery strategy
ForcedBeforeAction(i) ==
  Len(inv[i].calls) >= 1 /\ inv[i].calls[1] = "forceRecovery"
Escalated(i) ==
  \E n \in 2..Len(inv[i].calls) : inv[i].calls[n] = "forceRecovery"
ForceInvoked(i) ==
  \E n \in 1..Len(inv[i].calls) : inv[i].calls[n] = "forceRecovery"

\* the number of times a recovery strategy was called by invocation i
Times(i, strategy) ==
  Cardinality({n \in 1..Len(inv[i].calls) : inv[i].calls[n] = strategy})

\* C1: in the step in which a guarded action completes without throwing, the
\* key's attempt record is removed and its last-success time becomes the time
\* of that completion.
C1_SuccessClearsRecord ==
  [][\A i \in Inv :
       (inv[i].pc = "run" /\ inv'[i].result = "returned") =>
         /\ attempts'[KeyOf(i)] = NoAttempt
         /\ lastSuccess'[KeyOf(i)] = now]_vars

C1_Witness ==
  \E i \in Inv :
    /\ Succeeded(i)
    /\ inv[i].status.attemptCount >= 2
    /\ attempts[KeyOf(i)] = NoAttempt
    /\ lastSuccess[KeyOf(i)] = now
    /\ now > StartTime

\* C2: a guarded invocation adds exactly one to the key's attempt count, creating
\* the record with the current time as first attempt when it is absent; it is
\* declared deadlocked exactly when the new count is >= 3 and more than 60 s
\* have passed since the first attempt of the streak, and this is decided before
\* the action runs.  A third call that comes within 10 s of the first attempt
\* is never declared deadlocked.
C2_CallStep ==
  \A i \in Inv :
    (inv[i].pc = "idle" /\ inv'[i].pc # "idle") =>
      LET k == Key(inv'[i].operation, inv'[i].target)
          old == attempts[k]
          new == attempts'[k]
      IN /\ new.count = old.count + 1
         /\ new.firstAttempt = (IF old = NoAttempt THEN now ELSE old.firstAttempt)
         /\ inv'[i].status.attemptCount = new.count
         /\ inv'[i].status.isDeadlock <=>
              (new.count >= 3 /\ now - new.firstAttempt > 60000)
         /\ inv'[i].actionStart = Absent

C2_ThirdCallWithin10s ==
  \A i \in Inv :
    (inv[i].pc # "idle" /\ inv[i].status.attemptCount = 3
       /\ inv[i].status.timeSinceFirst <= 10000) => ~inv[i].status.isDeadlock

ThreeFailuresWithin60s(i) ==
  /\ inv[i].status.attemptCount = 4
  /\ lastFailure[KeyOf(i)] # NoFailure
  /\ lastFailure[KeyOf(i)] - attempts[KeyOf(i)].firstAttempt <= 60000

SinceLastSuccess(k) == now - (IF lastSuccess[k] = NoSuccess THEN 0 ELSE lastSuccess[k])

ConnectionCheckFailed(i) == ~(inv[i].reach.ping /\ inv[i].reach.ssh)

C5_Original ==
  \A i \in Inv :
    inv[i].forceResult = "failed" =>
      /\ Failed(i)
      /\ inv[i].thrown \in {ErrCommand, ErrNotReady}
      /\ inv[i].raised = NoError => inv[i].actionStart = Absent

OtherStrategies(i) ==
  Times(i, "recoverConnectionIssue") + Times(i, "recoverMissingFiles")

SyncPhaseCommands ==
  { "git rev-parse HEAD", "git fetch origin --force", "git reset --hard origin/branch" }

\* C10 as stated: after a failure with the missing-file signature, the recovery
\* has the sync phase of the deployment pipeline re-run for the target.
C10_Original ==
  \A i \in Inv :
    (Done(i) /\ ErrorSignature(inv[i].raised) = "files") =>
      \E n \in 1..Len(inv[i].cmds) : inv[i].cmds[n] \in SyncPhaseCommands

\* C11: a guarded action that has not settled when the timeout expires is a
\* failure: the caller receives the timeout error, no recovery strategy is
\* invoked for it, the key's attempt record is kept and its last-success time
\* is unchanged; when the action settles later, neither changes.
C11_TimeoutOutcome ==
  \A i \in Inv :
    (Done(i) /\ inv[i].raised = ErrTimeout) =>
      /\ inv[i].result = "threw"
      /\ inv[i].thrown = ErrTimeout
      /\ Times(i, "recoverPortConflict") + OtherStrategies(i) = 0
      /\ ~Escalated(i)
      /\ attempts[KeyOf(i)].count >= 1

C11_TimeoutStep ==
  \A i \in Inv :
    (inv[i].pc = "run" /\ inv'[i].raised = ErrTimeout) =>
      /\ attempts' = attempts
      /\ attempts[KeyOf(i)] # NoAttempt
      /\ lastSuccess' = lastSuccess
      /\ now - inv[i].actionStart >= 30000

C11_LateCompletionStep ==
  (orphans' # orphans /\ orphans' \subseteq orphans) =>
    (attempts' = attempts /\ lastSuccess' = lastSuccess)

C11_TimeoutIsFailure ==
  []C11_TimeoutOutcome /\ [][C11_TimeoutStep /\ C11_LateCompletionStep]_vars

\* the timed-out invocation has thrown and its action has settled since
C11_Witness ==
  \E i \in Inv :
    /\ Failed(i)
    /\ inv[i].raised = ErrTimeout
    /\ KeyOf(i) \notin orphans
    /\ attempts[KeyOf(i)].count >= 1
    /\ lastFailure[KeyOf(i)] = now

\* the (operation, target) pair of the invocation that takes a step
PairOf(r) == << r.operation, r.target >>

\* C12 as stated: a guarded invocation for one (operation, target) pair never
\* changes the attempt record or the last-success time of a different pair,
\* for all operation names and target identifiers.
C12_StepLeavesOtherPairs ==
  \A i \in Inv :
    inv'[i] # inv[i] =>
      LET me == IF inv[i].pc = "idle" THEN PairOf(inv'[i]) ELSE PairOf(inv[i])
      IN \A o \in WideOperations, t \in WideTargets :
           << o, t >> # me =>
             /\ attempts'[Key(o, t)] = attempts[Key(o, t)]
             /\ lastSuccess'[Key(o, t)] = lastSuccess[Key(o, t)]

C12_Original == [][C12_StepLeavesOtherPairs]_vars

-----------------------------------------------------------------------------
(* Properties of the deployment tool                                       *)

\* the run is between its first and its last remote command of the
\* synchronization, the restart or the rollback
RemoteSection ==
  {"sync_read", "sync_fetch", "sync_reset", "sync_verify", "sync_files",
   "app_stop", "app_cache", "app_start", "app_sleep", "rb_prev", "rb_reset"}

InRemoteSection(r) == run[r].pc \in RemoteSection

\* C13 as stated: a run started while another run for the same target is in
\* progress fails fast, so in no reachable state are two runs both among
\* their remote sync/restart commands.
C13_Original ==
  \A r1 \in Runs, r2 \in Runs :
    r1 # r2 => ~ (InRemoteSection(r1) /\ InRemoteSection(r2))

IsForward(phase) == phase # "rollback"
\* the phases of the forward pipeline that the run has entered
Forward(r) == SelectSeq(run[r].phases, IsForward)
Prefix(s, n) == SubSeq(s, 1, n)

\* C14: within one run the phases are entered in the order pre-check, sync,
\* deploy, validate, each only after the previous one returned; once a phase
\* has raised no later forward phase is entered, only the rollback may follow.
C14_PhaseOrder ==
  \A r \in Runs :
    LET f == Forward(r)
        c == run[r].completed
    IN /\ f = Prefix(ForwardPhases, Len(f))
       /\ c = f \/ (f # << >> /\ c = Prefix(f, Len(f) - 1))
       /\ (f # << >> /\ c = f) => run[r].pc = "done" /\ run[r].exit = exitSuccess
       /\ run[r].raised # "" =>
            /\ Last(f) = run[r].raised
            /\ c = Prefix(f, Len(f) - 1)
       /\ run[r].phases # f =>
            /\ run[r].phases = Append(f, "rollback")
            /\ run[r].raised # ""

C14_Witness ==
  /\ run[1].pc = "done"
  /\ run[1].raised = "deploy"
  /\ run[1].phases = << "pre-check", "sync", "deploy", "rollback" >>

\* the previous call of the synchronization returned for the commit that
\* run r synchronizes to, and the working copy has not been moved since
SecondSyncInARow(r) == synced # NoSync /\ synced = run[r].commit

\* C15 as stated: a synchronization called right after one that returned for
\* the same target commit, with forceSync = false, short-circuits: it issues
\* no fetch and no hard reset.
C15_Original ==
  \A r \in Runs :
    (SecondSyncInARow(r) /\ ~ ForceSyncArgument(run[r].options)) =>
      run[r].pc \notin {"sync_fetch", "sync_reset", "sync_verify"}

InSeq(x, s) == \E i \in 1..Len(s) : s[i] = x

\* the synchronization of run r has returned and nothing has raised since
SyncReturned(r) == InSeq("sync", run[r].completed) /\ run[r].raised = ""

\* after a synchronization has returned the remote HEAD is the target commit
C16_ReturnedMeansEqual ==
  \A r \in Runs : SyncReturned(r) => remoteHead = run[r].commit

\* a synchronization error stops the forward pipeline before phase 3
C16_NoDeployAfterSyncError ==
  \A r \in Runs :
    run[r].raised = "sync" => Forward(r) = << "pre-check", "sync" >>

\* the step after the read-back: it goes on only if HEAD is the target, and
\* a HEAD that differs raises the synchronization error
C16_VerifyStep ==
  \A r \in Runs :
    (run[r].pc = "sync_verify" /\ run'[r] # run[r]) =>
      /\ run'[r].pc = "sync_files" =>
           /\ remoteHead = run[r].commit
           /\ run'[r].verifyCommit = run[r].commit
      /\ remoteHead # run[r].commit =>
           /\ run'[r].raised = "sync"
           /\ run'[r].pc \in {"done", "rb_prev"}
           /\ run'[r].error \in {SyncError, CommandError}
           /\ run'[r].error = CommandError => run'[r].verifyCommit = EmptyOutput

C17_Original ==
  \A r \in Runs :
    SyncReturned(r) =>
      /\ Flag(run[r].options, "forceSync") =>
           run[r].syncCmds = << "fetch", "reset" >>
      /\ run[r].syncCmds = << >> =>
           /\ ~ Flag(run[r].options, "forceSync")
           /\ run[r].containerCommit = run[r].commit

\* every endpoint of the list has been probed
Validated(r) == Len(run[r].probes) = Len(endpoints)
\* the number of probes that were answered with the expected status
HealthyReplies(r) ==
  Cardinality({i \in 1..Len(run[r].probes) : run[r].probes[i] = expectedStatus})
\* the validation of run r returned its result
Passed(r) == run[r].exit = exitSuccess /\ run[r].validation.success
\* the validation of run r threw
ValidationRaised(r) ==
  run[r].raised = "validate" /\ run[r].error.kind = ValidationFailed

\* C18: the verdict passes if and only if healthyCount / totalCount >= 0.75,
\* for every number of endpoints and every combination of probe outcomes.
C18_Threshold ==
  \A r \in Runs :
    Validated(r) =>
      /\ Passed(r) <=>
           thresholdDen * HealthyReplies(r) >= thresholdNum * Len(endpoints)
      /\ Passed(r) \/ ValidationRaised(r)
      /\ Passed(r) => run[r].validation.healthyEndpoints = HealthyReplies(r)
      /\ ValidationRaised(r) => run[r].error.healthy = HealthyReplies(r)

\* three of four healthy
C18_Witness ==
  /\ Len(endpoints) = MaxEndpoints
  /\ Validated(1)
  /\ HealthyReplies(1) = MaxEndpoints - 1
  /\ Passed(1)

\* the per-endpoint breakdown that reaches the caller of the validation
Delivered(r) ==
  IF Passed(r) THEN run[r].validation.results
  ELSE IF "results" \in DOMAIN run[r].error THEN run[r].error.results
  ELSE << >>

\* C19 as stated: the validation delivers the full per-endpoint breakdown to
\* its caller whatever the verdict: in the returned result when it passes,
\* carried by the validation error when it fails.
C19_Original ==
  \A r \in Runs :
    Validated(r) =>
      /\ Len(Delivered(r)) = Len(endpoints)
      /\ \A i \in 1..Len(Delivered(r)) : Delivered(r)[i].url = endpoints[i]

\* C20: a probe that errors is recorded as that endpoint's unhealthy entry
\* and is never propagated; every endpoint is probed exactly once, in order,
\* and gets exactly one entry, whatever the other probes give.
C20_ProbeErrorsRecorded ==
  \A r \in Runs :
    LET probes == run[r].probes
        results == run[r].results
    IN /\ Len(probes) <= Len(endpoints)
       /\ Len(results) = Len(probes)
       /\ \A i \in 1..Len(results) :
            /\ results[i].url = endpoints[i]
            /\ probes[i] = Rejected =>
                 results[i].status = "ERROR" /\ ~ results[i].healthy
            /\ probes[i] # Rejected =>
                 /\ results[i].status = probes[i]
                 /\ results[i].healthy <=> probes[i] = expectedStatus
       /\ run[r].raised = "validate" => Validated(r) /\ ValidationRaised(r)
       /\ (run[r].pc = "done" /\ run[r].raised = "") => Validated(r)

C20_Witness ==
  /\ run[1].pc = "done"
  /\ Len(endpoints) = MaxEndpoints
  /\ run[1].probes[1] = Rejected
  /\ \A i \in 2..MaxEndpoints : run[1].probes[i] = expectedStatus
  /\ Len(run[1].results) = MaxEndpoints

\* attemptRollback has been entered by run r
RollbackEntered(r) == InSeq("rollback", run[r].phases)

\* C21 as stated: the rollback is entered only if the run was started with
\* auto-rollback and a phase after the pre-check (sync, deploy or validate)
\* raised; a failure of the pre-check, or any failure without auto-rollback,
\* never triggers a rollback.
C21_Original ==
  \A r \in Runs :
    RollbackEntered(r) =>
      /\ Flag(run[r].options, "autoRollback")
      /\ run[r].raised \in {"sync", "deploy", "validate"}

\* the number of times attemptRollback was entered by run r
Rollbacks(r) ==
  Cardinality({i \in 1..Len(run[r].phases) : run[r].phases[i] = "rollback"})

\* a run that entered the rollback enters it once and ends in an error
C22_OnceAndFails ==
  \A r \in Runs :
    /\ Rollbacks(r) <= 1
    /\ (RollbackEntered(r) /\ run[r].pc = "done") =>
         /\ run[r].exit = exitFailure
         /\ run[r].thrown # NoDeployError

\* a step of a run that is on the rollback path never enters the rollback
C22_Step ==
  \A r \in Runs :
    (RollbackEntered(r) /\ run'[r] # run[r]) =>
      /\ run'[r].pc # "rb_prev"
      /\ run'[r].pc \in {"rb_reset", "app_stop", "app_cache", "app_start",
                         "app_sleep", "done", "idle"}

\* C22: the rollback is attempted at most once per run: whatever fails during
\* or after it, no second rollback is attempted and the run ends in an error.
C22_RollbackAtMostOnce == []C22_OnceAndFails /\ [][C22_Step]_vars

C22_Witness ==
  /\ run[1].pc = "done"
  /\ RollbackEntered(1)
  /\ run[1].thrown.kind = RollbackFailed
  /\ run[1].exit = exitFailure

\* the validation was entered after the rollback
ValidatedAfterRollback(r) ==
  \E i \in 1..Len(run[r].phases), j \in 1..Len(run[r].phases) :
    i < j /\ run[r].phases[i] = "rollback" /\ run[r].phases[j] = "validate"

\* the error carries the detail of the failure that started the rollback
CarriesOriginal(error, original) ==
  "original" \in DOMAIN error /\ error.original = original.kind

\* C23 as stated: the rollback resets the working copy to the parent commit,
\* re-runs the deploy phase and then validates again; if the rollback or that
\* validation fails, the run ends with an error that carries both the
\* original failure and the rollback failure.
C23_Original ==
  \A r \in Runs :
    (RollbackEntered(r) /\ run[r].pc = "done") =>
      /\ run[r].thrown.kind # RollbackFailed => ValidatedAfterRollback(r)
      /\ run[r].thrown.kind = RollbackFailed =>
           /\ CarriesOriginal(run[r].thrown, run[r].error)
           /\ "cause" \in DOMAIN run[r].thrown

\* C24: a run reports success (returns the success result, exit code 0) if
\* and only if all four phases returned without raising; a run in which a
\* phase raised ends in failure (exit code 1) even when the rollback completed.
C24_NoPartialSuccess ==
  \A r \in Runs :
    run[r].pc = "done" =>
      /\ run[r].exit \in {exitSuccess, exitFailure}
      /\ run[r].exit = exitSuccess <=>
           (run[r].completed = ForwardPhases /\ run[r].raised = "")
      /\ run[r].exit = exitSuccess =>
           run[r].validation.success /\ run[r].thrown = NoDeployError
      /\ run[r].raised # "" =>
           run[r].exit = exitFailure /\ run[r].thrown # NoDeployError

\* the validation failed, the rollback completed, the run failed
C24_Witness ==
  /\ run[1].pc = "done"
  /\ run[1].raised = "validate"
  /\ RollbackEntered(1)
  /\ run[1].thrown = run[1].error
  /\ run[1].exit = exitFailure

\* C25: a call of executeCommand returns the captured output, or fails with
\* a timeout error of its own, or fails with an execution error that carries
\* stderr when the exit status is not zero; a command that timed out or
\* failed is never reported as a success.
C25_Original ==
  (command.pc = "closed" /\ command.event = "close") =>
    /\ command.timedOut =>
         (command.settled = "rejected" /\ command.error.kind = "timeout")
    /\ (~ command.timedOut /\ command.code # successCode) =>
         /\ command.settled = "rejected"
         /\ command.error.kind = CommandFailed
         /\ command.error.stderr = command.stderr
    /\ (~ command.timedOut /\ command.code = successCode) =>
         (command.settled = "resolved" /\ command.value = command.stdout)

\* the commands the guarded action issued all succeeded
AllCommandsSucceeded(c) == \A i \in 1..Len(c.commands) : c.commands[i] = "ok"

\* C26: `start <target>` and `test <target>` of the guardian command line
\* exit with 0 when the guarded operation succeeded and with 1 when it
\* failed, and a guarded start whose commands all succeed is a success.
C26_Original ==
  (cli.tool = "guardian" /\ cli.pc = "exited"
     /\ cli.action \in {"start", "test"}) =>
    /\ cli.outcome = "resolved" => cli.exit = 0
    /\ cli.outcome = "rejected" => cli.exit = 1
    /\ (cli.action = "start" /\ AllCommandsSucceeded(cli)) =>
         cli.outcome = "resolved"

\* C27: `health-check <target>` exits with 0 when the target answers the
\* probe with a 2xx or 3xx status, and with 1 when it is unhealthy (another
\* status, a probe error, a timeout).
C27_Original ==
  (cli.tool = "isolated" /\ cli.pc = "exited"
     /\ cli.action = "health-check") =>
    cli.exit = IF IsHealthyStatus(cli.answer) THEN 0 ELSE 1

\* C28: under every interleaving of invocations for one key, once an
\* invocation for the key has failed the key's attempt record is present
\* with a count of at least 1, and its first-attempt time is one recorded
\* no later than the start of the failed invocation's action.
C28_Original ==
  \A i \in DOMAIN inv :
    (inv[i].pc = "done" /\ inv[i].thrown # NoError) =>
      /\ attempts[KeyOf(i)] # NoAttempt
      /\ attempts[KeyOf(i)].count >= 1
      /\ inv[i].actionStart # Absent =>
           attempts[KeyOf(i)].firstAttempt <= inv[i].actionStart

\* C30: an operation waiting in the queue whose own resource is free, and
\* for which no dispatch by setImmediate is pending, is not kept there by
\* the lock of another resource.
C30_Original ==
  \A n \in 1..Len(operationQueue) :
    (/\ opState[operationQueue[n]].key \notin resourceLocks
     /\ \A o \in Ops : opState[o].st # "immediate")
      => resourceLocks = {}

\* the run failed before a reset of the synchronization was issued: in the
\* pre-check, or in the synchronization at the read of the container's HEAD
\* or at the fetch
FailedBeforeReset(r) ==
  \/ run[r].raised = "pre-check"
  \/ (run[r].raised = "sync" /\ ~ InSeq("reset", run[r].syncCmds))

\* C29: when a run with auto-rollback has failed before the container was
\* reset to the new commit, then after the rollback attempt the container
\* is at the commit it held when the run started: the rollback has not
\* moved it to an older commit.
C29_Original ==
  (run[1].pc = "done" /\ RollbackEntered(1) /\ FailedBeforeReset(1)) =>
    remoteHead = run[1].startHead

====
